---- MODULE Spec2Model ----
(***************************************************************************)
(* One run of laview_dl.work.work against one NVR: authentication probe,   *)
(* time-offset resolution, paginated search and sequential download.       *)
(* The device and the network are the environment: every answer they give  *)
(* is drawn from a small set in the action that issues the request.        *)
(***************************************************************************)
EXTENDS Integers, Sequences, FiniteSets, TLC

\* ------------------------------------------------------------------ bounds
\* cap on the number of search page requests of one run (the loop of
\* get_all_tracks has no cap of its own)
MaxRequests == 3
\* cameras download_from_all_cameras walks through in one process
MaxCameras == 2

\* ------------------------------------------------------- program constants
MAX_VIDEOS_NUMBER_IN_ONE_REQUEST == 50
DELAY_BETWEEN_DOWNLOADING_FILES_SECONDS == 1
DELAY_AFTER_TIMEOUT_SECONDS == 5
DEVICE_ERROR_CODE == 500
DEFAULT_TIMEOUT_SECONDS == 10

\* page sizes the device answers with: empty, short, full
PageSizes == {0, 3, MAX_VIDEOS_NUMBER_IN_ONE_REQUEST}
\* the user's time range (seconds from a fixed instant), as given to work
UserStart == 0
UserEnd == 10

\* exceptions requests raises for a network-level failure
NetErrors == {"ConnectionError", "ReadTimeout"}
\* the two auth schemes get_auth_type probes
Schemes == {"BASIC", "DIGEST"}

VARIABLES
    pc,                 \* position of work: auth, offset, search, download, done
    accepts,            \* device: the auth schemes whose credentials it accepts
    device_tz,          \* device: the text of the timeZone element it reports
    use_utc_time,       \* argument of work
    camera_channel,     \* argument of work
    handlers,           \* handlers init_logger attached to the logger, per sink
    dirs,               \* filesystem: the directories that exist
    time_offset,        \* work's local variable local_time_offset
    auth_type,          \* result of get_auth_type ("none" before / when it raised)
    utc_time_interval,  \* the interval object handed to get_all_tracks
    tracks,             \* get_all_tracks' list; afterwards the list download_tracks walks
    idx,                \* download_tracks: index of the track being downloaded
    files,              \* filesystem: file name -> "complete" | "partial"
    log,                \* requests issued and sleeps taken, in order
    errors,             \* messages work emitted with logger.error / logger.exception
    escaped,            \* exception that left work uncaught ("none" if none)
    cli_mode,           \* the caller of work: none (direct), device, legacy, batch
    configured_timeout, \* "timeout" of the device configuration (0: not set)
    default_timeout_seconds, \* CameraSdk.default_timeout_seconds
    recordings,         \* device: the recordings it stores, in the order it lists them
    call,               \* which call of get_all_tracks on the interval object is running
    first_tracks,       \* the list the first call of get_all_tracks returned
    video_name,         \* name of the video file handed to extract_timestamps
    results             \* extract_timestamps' results dictionary

workvars == <<pc, accepts, device_tz, use_utc_time, camera_channel, handlers, dirs,
              time_offset, auth_type, utc_time_interval, tracks, idx,
              files, log, errors, escaped>>
clivars == <<cli_mode, configured_timeout, default_timeout_seconds>>
devvars == <<recordings, call, first_tracks>>
namevars == <<video_name, results>>

vars == <<workvars, clivars, devvars, namevars>>

\* ----------------------------------------------------------------- helpers
\* work with the first except clause only
work_except_connection_only(exc) ==
    IF exc = "ConnectionError"
    THEN [errors |-> <<[level |-> "error", msg |-> exc]>>, escaped |-> "none"]
    ELSE [errors |-> <<>>, escaped |-> exc]

\* work's two except clauses: ConnectionError -> logger.error, any other
\* Exception -> logger.exception; a BaseException such as KeyboardInterrupt
\* is not caught
work_except(exc) ==
    IF exc = "ConnectionError"
    THEN [errors |-> <<[level |-> "error", msg |-> exc]>>, escaped |-> "none"]
    ELSE IF exc = "KeyboardInterrupt"
    THEN [errors |-> <<>>, escaped |-> exc]
    ELSE [errors |-> <<[level |-> "exception", msg |-> exc]>>, escaped |-> "none"]

\* requests.get of the time endpoint with one scheme's credentials
make_get_request(scheme, acc, net) ==
    IF net # "up" THEN [raised |-> net, ok |-> FALSE]
    ELSE [raised |-> "none", ok |-> scheme \in acc]

\* one probe as get_auth_type sees it
Probe(scheme, r) ==
    [op |-> "probe", scheme |-> scheme, raised |-> r.raised, ok |-> r.ok]

\* get_auth_type with the two probes in the opposite order
get_auth_type_digest_first(acc, net1, net2) ==
    LET r1 == make_get_request("DIGEST", acc, net1)
        r2 == make_get_request("BASIC", acc, net2)
    IN  IF r1.raised # "none"
        THEN [raised |-> r1.raised, result |-> "none",
              probes |-> <<Probe("DIGEST", r1)>>]
        ELSE IF r1.ok
        THEN [raised |-> "none", result |-> "DIGEST",
              probes |-> <<Probe("DIGEST", r1)>>]
        ELSE IF r2.raised # "none"
        THEN [raised |-> r2.raised, result |-> "none",
              probes |-> <<Probe("DIGEST", r1), Probe("BASIC", r2)>>]
        ELSE IF r2.ok
        THEN [raised |-> "none", result |-> "BASIC",
              probes |-> <<Probe("DIGEST", r1), Probe("BASIC", r2)>>]
        ELSE [raised |-> "none", result |-> "UNAUTHORISED",
              probes |-> <<Probe("DIGEST", r1), Probe("BASIC", r2)>>]

\* get_auth_type with each probe wrapped in a try that turns a network
\* error into a non-success answer
get_auth_type_swallow(acc, net1, net2) ==
    LET r1 == make_get_request("BASIC", acc, net1)
        r2 == make_get_request("DIGEST", acc, net2)
    IN  IF r1.raised = "none" /\ r1.ok
        THEN [raised |-> "none", result |-> "BASIC",
              probes |-> <<Probe("BASIC", r1)>>]
        ELSE IF r2.raised = "none" /\ r2.ok
        THEN [raised |-> "none", result |-> "DIGEST",
              probes |-> <<Probe("BASIC", r1), Probe("DIGEST", r2)>>]
        ELSE [raised |-> "none", result |-> "UNAUTHORISED",
              probes |-> <<Probe("BASIC", r1), Probe("DIGEST", r2)>>]

\* CameraSdk.get_auth_type: Basic probe, then Digest probe; an exception of
\* requests.get is not caught here
get_auth_type(acc, net1, net2) ==
    LET r1 == make_get_request("BASIC", acc, net1)
        r2 == make_get_request("DIGEST", acc, net2)
    IN  IF r1.raised # "none"
        THEN [raised |-> r1.raised, result |-> "none",
              probes |-> <<Probe("BASIC", r1)>>]
        ELSE IF r1.ok
        THEN [raised |-> "none", result |-> "BASIC",
              probes |-> <<Probe("BASIC", r1)>>]
        ELSE IF r2.raised # "none"
        THEN [raised |-> r2.raised, result |-> "none",
              probes |-> <<Probe("BASIC", r1), Probe("DIGEST", r2)>>]
        ELSE IF r2.ok
        THEN [raised |-> "none", result |-> "DIGEST",
              probes |-> <<Probe("BASIC", r1), Probe("DIGEST", r2)>>]
        ELSE [raised |-> "none", result |-> "UNAUTHORISED",
              probes |-> <<Probe("BASIC", r1), Probe("DIGEST", r2)>>]

\* work without the Unauthorised check
work_auth_check_ignored(at) == "none"

\* work, lines 34-36: UNAUTHORISED raises RuntimeError
work_auth_check(at) ==
    IF at = "UNAUTHORISED" THEN "RuntimeError" ELSE "none"

\* ------------------------------------------------------- timezone texts
\* a text is the sequence of its characters
Digits == {"0", "1", "2", "3", "4", "5", "6", "7", "8", "9"}

DigitValue(c) ==
    CASE c = "0" -> 0 [] c = "1" -> 1 [] c = "2" -> 2 [] c = "3" -> 3
      [] c = "4" -> 4 [] c = "5" -> 5 [] c = "6" -> 6 [] c = "7" -> 7
      [] c = "8" -> 8 [] c = "9" -> 9

DigitChar(n) ==
    CASE n = 0 -> "0" [] n = 1 -> "1" [] n = 2 -> "2" [] n = 3 -> "3"
      [] n = 4 -> "4" [] n = 5 -> "5" [] n = 6 -> "6" [] n = 7 -> "7"
      [] n = 8 -> "8" [] n = 9 -> "9"

\* Python's int on a run of decimal digits
RECURSIVE int(_)
int(ds) ==
    IF ds = <<>> THEN 0
    ELSE 10 * int(SubSeq(ds, 1, Len(ds) - 1)) + DigitValue(ds[Len(ds)])

\* str.replace(old, ""): every occurrence of old, left to right, removed
RECURSIVE replace(_, _)
replace(s, old) ==
    IF Len(s) < Len(old) THEN s
    ELSE IF SubSeq(s, 1, Len(old)) = old
    THEN replace(SubSeq(s, Len(old) + 1, Len(s)), old)
    ELSE <<s[1]>> \o replace(Tail(s), old)

\* index of the last character of the longest run of digits of s that
\* starts at index i (i - 1 when there is no digit at i)
DigitsEnd(s, i) ==
    LET stops == {j \in i..Len(s) : s[j] \notin Digits}
    IN  IF stops = {} THEN Len(s)
        ELSE (CHOOSE j \in stops : \A k \in stops : j <= k) - 1

\* the pattern (\d+):(\d+):(\d+) matched at index i of s
MatchHMS(s, i) ==
    LET e1 == DigitsEnd(s, i)
        e2 == DigitsEnd(s, e1 + 2)
        e3 == DigitsEnd(s, e2 + 2)
        ok == /\ e1 >= i
              /\ e1 + 1 <= Len(s) /\ s[e1 + 1] = ":"
              /\ e2 >= e1 + 2
              /\ e2 + 1 <= Len(s) /\ s[e2 + 1] = ":"
              /\ e3 >= e2 + 2
    IN  IF ok
        THEN [ok |-> TRUE,
              g1 |-> int(SubSeq(s, i, e1)),
              g2 |-> int(SubSeq(s, e1 + 2, e2)),
              g3 |-> int(SubSeq(s, e2 + 2, e3))]
        ELSE [ok |-> FALSE, g1 |-> 0, g2 |-> 0, g3 |-> 0]

\* the zone names parse_timezone removes, in its order
TzNames == << <<"C", "S", "T">>, <<"E", "S", "T">>, <<"P", "S", "T">>,
              <<"M", "S", "T">>, <<"G", "M", "T">>, <<"U", "T", "C">> >>

RECURSIVE StripNames(_, _)
StripNames(s, k) ==
    IF k > Len(TzNames) THEN s ELSE StripNames(replace(s, TzNames[k]), k + 1)

\* CameraSdk.parse_timezone, in seconds: the zone names removed, the first
\* match of ([+-]\d+):(\d+):(\d+) read as int(group 1) hours, group 2
\* minutes and group 3 seconds, the first match of DST(\d+):(\d+):(\d+)
\* added field by field, and the timedelta of the totals negated; zero
\* when the base pattern does not match
parse_timezone(raw_timezone) ==
    LET timezone_text == StripNames(raw_timezone, 1)
        base == {i \in 1..Len(timezone_text) :
                    /\ timezone_text[i] \in {"+", "-"}
                    /\ MatchHMS(timezone_text, i + 1).ok}
        dst == {i \in 1..(Len(timezone_text) - 2) :
                    /\ SubSeq(timezone_text, i, i + 2) = <<"D", "S", "T">>
                    /\ MatchHMS(timezone_text, i + 3).ok}
    IN  IF base = {} THEN 0
        ELSE LET b == CHOOSE i \in base : \A k \in base : i <= k
                 m == MatchHMS(timezone_text, b + 1)
                 hours == IF timezone_text[b] = "-" THEN 0 - m.g1 ELSE m.g1
                 d == IF dst = {} THEN [g1 |-> 0, g2 |-> 0, g3 |-> 0]
                      ELSE MatchHMS(timezone_text,
                                    (CHOOSE i \in dst : \A k \in dst : i <= k) + 3)
                 total_hours == hours + d.g1
                 total_minutes == m.g2 + d.g2
                 total_seconds == m.g3 + d.g3
             IN  0 - (total_hours * 3600 + total_minutes * 60 + total_seconds)

\* a number below 100 written with two digits, and an hour count written
\* as the device writes it
TwoDigits(n) == <<DigitChar(n \div 10), DigitChar(n % 10)>>
HourDigits(n) == IF n < 10 THEN <<DigitChar(n)>> ELSE TwoDigits(n)

\* the timezone text of a device configured with zone name c.name, base
\* offset c.sign c.h:c.m:c.s ("" for a text without sign) and, when c.dst
\* is set, a daylight saving bias of c.dh:c.dm:00
TzText(c) ==
    c.name \o (IF c.sign = "" THEN <<>> ELSE <<c.sign>>)
           \o HourDigits(c.h) \o <<":">> \o TwoDigits(c.m)
           \o <<":">> \o TwoDigits(c.s)
           \o (IF c.dst
               THEN <<"D", "S", "T">> \o TwoDigits(c.dh) \o <<":">>
                      \o TwoDigits(c.dm) \o <<":", "0", "0">>
               ELSE <<>>)

TzConfigs ==
    [name : {<<>>, <<"C", "S", "T">>, <<"U", "T", "C">>, <<"I", "S", "T">>},
     sign : {"+", "-", ""}, h : {0, 5, 12}, m : {0, 30}, s : {0, 7},
     dst : {FALSE}, dh : {0}, dm : {0}]
    \cup
    [name : {<<>>, <<"C", "S", "T">>, <<"U", "T", "C">>, <<"I", "S", "T">>},
     sign : {"+", "-", ""}, h : {0, 5, 12}, m : {0, 30}, s : {0, 7},
     dst : {TRUE}, dh : {0, 1}, dm : {0, 30}]

\* texts that hold no H:MM:SS offset at all
TzGarbage ==
    {<<>>, <<"C", "S", "T">>, <<"+", "5">>, <<"+", "5", ":", "0", "0">>,
     <<"C", "S", "T", "-", "8">>, <<"+", ":", "0", "0", ":", "0", "0">>}

\* every timezone text a device reports in the runs that resolve an offset
TzTextsAll == {TzText(c) : c \in TzConfigs} \cup TzGarbage

\* the timezone text of the device of the full runs: "CST+5:00:00DST01:00:00"
TzTexts ==
    {TzText([name |-> <<"C", "S", "T">>, sign |-> "+", h |-> 5, m |-> 0,
             s |-> 0, dst |-> TRUE, dh |-> 1, dm |-> 0])}

\* TimeInterval.to_utc: start and end shifted by -localOffset, offset cleared
to_utc(ti) ==
    [start_time |-> ti.start_time - ti.local_time_offset,
     end_time |-> ti.end_time - ti.local_time_offset,
     local_time_offset |-> 0]

\* to_local_time shifting the wrong way
to_local_time_backwards(ti) ==
    [start_time |-> ti.start_time - ti.local_time_offset,
     end_time |-> ti.end_time - ti.local_time_offset,
     local_time_offset |-> ti.local_time_offset]

\* TimeInterval.to_local_time: start and end shifted by +localOffset
to_local_time(ti) ==
    [start_time |-> ti.start_time + ti.local_time_offset,
     end_time |-> ti.end_time + ti.local_time_offset,
     local_time_offset |-> ti.local_time_offset]

\* Track(playback_uri, local_time_offset)
Track(playback_uri, local_time_offset) ==
    [uri |-> playback_uri, local_time_offset |-> local_time_offset]

\* Track.get_time_interval: the span encoded in the playback URI
get_time_interval(track) ==
    [start_time |-> track.uri.start, end_time |-> track.uri.end,
     local_time_offset |-> track.local_time_offset]

\* the bodies the time endpoint sends: the time document with or without
\* its timeZone element, the device's ResponseStatus envelope (statusString
\* and subStatusCode present), another well-formed document, and a body
\* that is not XML (empty, HTML)
OkTimeBodies == {"time", "time_without_tz", "not_xml"}
ErrorBodies == {"envelope", "other_xml", "not_xml"}

\* CameraSdk.get_error_message_from: ElementTree.fromstring comes first, so
\* a body that is not XML raises ParseError; the formatted message needs
\* both fields, any other document is returned as it is
get_error_message_from(answer) ==
    IF answer.body = "not_xml"
    THEN [raised |-> "ParseError", message |-> "none"]
    ELSE IF answer.body = "envelope"
    THEN [raised |-> "none", message |-> "Error status reason: statusString - subStatusCode"]
    ELSE [raised |-> "none", message |-> "body text"]

\* CameraSdk.get_time_offset: answers of the time endpoint are
\* [raised, ok, body, tz]; timezone_raw.text is read outside the try of
\* parse_timezone, so a missing timeZone element raises AttributeError
get_time_offset(answer) ==
    IF answer.raised # "none"
    THEN [raised |-> answer.raised, offset |-> 0, message |-> "none"]
    ELSE IF ~answer.ok
    THEN LET e == get_error_message_from(answer)
         IN  IF e.raised # "none"
             THEN [raised |-> e.raised, offset |-> 0, message |-> "none"]
             ELSE [raised |-> "RuntimeError", offset |-> 0, message |-> e.message]
    ELSE IF answer.body = "not_xml"
    THEN [raised |-> "ParseError", offset |-> 0, message |-> "none"]
    ELSE IF answer.body = "time_without_tz"
    THEN [raised |-> "AttributeError", offset |-> 0, message |-> "none"]
    ELSE [raised |-> "none", offset |-> parse_timezone(answer.tz), message |-> "none"]

\* the answers the time endpoint of a device whose timezone text is tz can
\* give to get_time_offset
TimeAnswers(tz) ==
    [raised : NetErrors, ok : {FALSE}, body : {"none"}, tz : {tz}]
    \cup [raised : {"none"}, ok : {FALSE}, body : ErrorBodies, tz : {tz}]
    \cup [raised : {"none"}, ok : {TRUE}, body : OkTimeBodies, tz : {tz}]

\* CameraSdk.create_tracks_from_info: no matchList -> no tracks, else one
\* Track per searchMatchItem, in document order
create_tracks_from_info(answer, local_time_offset) ==
    IF ~answer.has_match_list THEN <<>>
    ELSE [k \in 1..Len(answer.items) |-> Track(answer.items[k], local_time_offset)]

\* the loop of get_all_tracks stopping on a page of at most the page size
get_all_tracks_step_le(trs, interval, answer) ==
    IF answer.ok
    THEN LET new_tracks == create_tracks_from_info(answer, interval.local_time_offset)
             all == trs \o new_tracks
         IN  IF Len(new_tracks) <= MAX_VIDEOS_NUMBER_IN_ONE_REQUEST
             THEN [tracks |-> all, interval |-> interval, more |-> FALSE]
             ELSE [tracks |-> all,
                   interval |-> [interval EXCEPT !.start_time =
                                   get_time_interval(all[Len(all)]).end_time],
                   more |-> TRUE]
    ELSE [tracks |-> <<>>, interval |-> interval, more |-> FALSE]

\* the loop of get_all_tracks keeping the earlier pages when a page fails
get_all_tracks_step_keep(trs, interval, answer) ==
    IF answer.ok
    THEN LET new_tracks == create_tracks_from_info(answer, interval.local_time_offset)
             all == trs \o new_tracks
         IN  IF Len(new_tracks) < MAX_VIDEOS_NUMBER_IN_ONE_REQUEST
             THEN [tracks |-> all, interval |-> interval, more |-> FALSE]
             ELSE [tracks |-> all,
                   interval |-> [interval EXCEPT !.start_time =
                                   get_time_interval(all[Len(all)]).end_time],
                   more |-> TRUE]
    ELSE [tracks |-> trs, interval |-> interval, more |-> FALSE]

\* the loop of get_all_tracks taking a page without tracks for a failure
get_all_tracks_step_empty_fails(trs, interval, answer) ==
    LET new_tracks == create_tracks_from_info(answer, interval.local_time_offset)
        all == trs \o new_tracks
    IN  IF answer.ok /\ Len(new_tracks) > 0
        THEN IF Len(new_tracks) < MAX_VIDEOS_NUMBER_IN_ONE_REQUEST
             THEN [tracks |-> all, interval |-> interval, more |-> FALSE]
             ELSE [tracks |-> all,
                   interval |-> [interval EXCEPT !.start_time =
                                   get_time_interval(all[Len(all)]).end_time],
                   more |-> TRUE]
        ELSE [tracks |-> <<>>, interval |-> interval, more |-> FALSE]

\* the loop of get_all_tracks resuming at the start of the last track
get_all_tracks_step_from_start(trs, interval, answer) ==
    IF answer.ok
    THEN LET new_tracks == create_tracks_from_info(answer, interval.local_time_offset)
             all == trs \o new_tracks
         IN  IF Len(new_tracks) < MAX_VIDEOS_NUMBER_IN_ONE_REQUEST
             THEN [tracks |-> all, interval |-> interval, more |-> FALSE]
             ELSE [tracks |-> all,
                   interval |-> [interval EXCEPT !.start_time =
                                   get_time_interval(all[Len(all)]).start_time],
                   more |-> TRUE]
    ELSE [tracks |-> <<>>, interval |-> interval, more |-> FALSE]

\* one iteration of the loop of get_all_tracks, given the page's answer:
\* the new list, the (mutated) interval and whether the loop goes on
get_all_tracks_step(trs, interval, answer) ==
    IF answer.ok
    THEN LET new_tracks == create_tracks_from_info(answer, interval.local_time_offset)
             all == trs \o new_tracks
         IN  IF Len(new_tracks) < MAX_VIDEOS_NUMBER_IN_ONE_REQUEST
             THEN [tracks |-> all, interval |-> interval, more |-> FALSE]
             ELSE [tracks |-> all,
                   interval |-> [interval EXCEPT !.start_time =
                                   get_time_interval(all[Len(all)]).end_time],
                   more |-> TRUE]
    ELSE [tracks |-> <<>>, interval |-> interval, more |-> FALSE]

\* the n match items of page p, the first one starting at instant base
Page(p, n, base) ==
    [k \in 1..n |-> [id |-> <<p, k>>, start |-> base + k - 1, end |-> base + k]]

\* the answers the search endpoint can give to page request number p for
\* the window starting at start: the first match begins at the window start;
\* a success answer may carry a body that is not well-formed XML
SearchAnswers(p, start) ==
    [raised : NetErrors, ok : {FALSE}, well_formed : {TRUE},
     has_match_list : {FALSE}, items : {<<>>}]
    \cup
    {[raised |-> "none", ok |-> FALSE, well_formed |-> TRUE,
      has_match_list |-> FALSE, items |-> <<>>],
     [raised |-> "none", ok |-> TRUE, well_formed |-> FALSE,
      has_match_list |-> FALSE, items |-> <<>>],
     [raised |-> "none", ok |-> TRUE, well_formed |-> TRUE,
      has_match_list |-> FALSE, items |-> <<>>]}
    \cup {[raised |-> "none", ok |-> TRUE, well_formed |-> TRUE,
           has_match_list |-> TRUE, items |-> Page(p, n, start)] : n \in PageSizes}

\* get_all_tracks with the page request wrapped in a try that turns a
\* network error into a failed page
get_all_tracks_raises_caught(answer) ==
    IF answer.raised = "none" /\ answer.ok /\ ~answer.well_formed
    THEN "ParseError" ELSE "none"

\* the exception that leaves get_all_tracks for one page: the one
\* requests.post raised (no try around it), or the ParseError of
\* ElementTree.fromstring in create_tracks_from_info
get_all_tracks_raises(answer) ==
    IF answer.raised # "none" THEN answer.raised
    ELSE IF answer.ok /\ ~answer.well_formed THEN "ParseError"
    ELSE "none"

\* LogPrinter.get_video_tracks_info, the after-hook of each page request
get_video_tracks_info_after(ok) ==
    IF ok THEN <<>>
    ELSE <<[level |-> "error", msg |-> "Error occurred during getting tracks list"],
           [level |-> "error", msg |-> "Request failed"]>>

\* number of search page requests issued so far
NumRequests == Cardinality({k \in 1..Len(log) : log[k].op = "search"})

\* what one download request meets
DownloadOutcomes ==
    {"ok", "http500", "http401", "stream_error", "interrupt"} \cup NetErrors
\* what one run of exiftool ends with: done, the three failures
\* set_video_exif_metadata catches, and an OSError it does not catch (an
\* exiftool on the PATH that may not be executed)
ExifOutcomes ==
    {"ok", "CalledProcessError", "FileNotFoundError", "TimeoutExpired",
     "PermissionError"}
ExifCaught == {"CalledProcessError", "FileNotFoundError", "TimeoutExpired"}

\* the device address of the run
CamIp == "cam_ip"

\* a path is the sequence of its components; os.path.dirname
dirname(path) == SubSeq(path, 1, Len(path) - 1)

\* utils.get_path_to_video_archive
get_path_to_video_archive(cam_ip, channel) ==
    <<"video", cam_ip, <<"camera", channel>> >>

\* utils.create_directory_for: os.makedirs of the directory of the path,
\* with the directories above it
create_directory_for(ds, file_path) ==
    ds \cup {SubSeq(file_path, 1, k) : k \in 1..(Len(file_path) - 1)}

\* CameraSdk.download_file: True after the whole body was copied, False for
\* a non-success answer and for a Timeout / ConnectionError of requests.get;
\* open() in a missing directory, an error while copying answer.raw (raised
\* by urllib3, not by requests) and an interrupt leave the function
download_file(outcome, dir_exists) ==
    IF outcome \in {"ok", "stream_error", "interrupt"} /\ ~dir_exists
    THEN [raised |-> "FileNotFoundError", ret |-> FALSE, file |-> "untouched"]
    ELSE IF outcome = "ok"
    THEN [raised |-> "none", ret |-> TRUE, file |-> "complete"]
    ELSE IF outcome = "stream_error"
    THEN [raised |-> "ProtocolError", ret |-> FALSE, file |-> "partial"]
    ELSE IF outcome = "interrupt"
    THEN [raised |-> "KeyboardInterrupt", ret |-> FALSE, file |-> "partial"]
    ELSE [raised |-> "none", ret |-> FALSE, file |-> "untouched"]

\* LogPrinter.download_file_after, the after-hook of utils.download_file
download_file_after(result) ==
    IF result THEN <<>> ELSE <<[level |-> "error", msg |-> "Download failed"]>>

\* set_video_exif_metadata: False when the file is missing or exiftool
\* fails in one of the three ways it catches; any other exception of
\* subprocess.run leaves it
set_video_exif_metadata(exists, exif) ==
    IF ~exists THEN [raised |-> "none", ret |-> FALSE]
    ELSE IF exif = "ok" THEN [raised |-> "none", ret |-> TRUE]
    ELSE IF exif \in ExifCaught THEN [raised |-> "none", ret |-> FALSE]
    ELSE [raised |-> exif, ret |-> FALSE]

\* answer.status_code in download_file_with_retry: answer is the bool
\* download_file returned, which has no such attribute
status_code(answer) ==
    IF answer \in BOOLEAN THEN "AttributeError" ELSE answer.status_code

\* TimeInterval.to_filename_text: the local start of the interval
to_filename_text(ti) == ti.start_time

\* download_file_with_retry, lines 115-119: the path of a track's file
file_name(track, channel) ==
    Append(get_path_to_video_archive(CamIp, channel),
           <<to_filename_text(to_local_time(get_time_interval(track))), ".mp4">>)

\* utils.download_file_with_retry for track number i of the list
download_file_with_retry(ds, track, i, channel, outcome, exif) ==
    LET name == file_name(track, channel)
        ds2 == create_directory_for(ds, name)
        d == download_file(outcome, dirname(name) \in ds2)
        x == set_video_exif_metadata(TRUE, exif)
        raised == IF d.raised # "none" THEN d.raised
                  ELSE IF d.ret THEN x.raised
                  ELSE IF status_code(d.ret) = "AttributeError" THEN "AttributeError"
                  ELSE "none"
        request == <<[op |-> "download", track |-> i, outcome |-> outcome,
                      raised |-> raised]>>
        base == [raised |-> raised, ret |-> FALSE, file |-> d.file, name |-> name,
                 dirs |-> ds2, events |-> request, errors |-> <<>>]
    IN  IF d.raised # "none" THEN base
        ELSE IF d.ret
        THEN [base EXCEPT !.ret = (x.raised = "none"),
                          !.errors = download_file_after(d.ret)]
        ELSE IF raised = "AttributeError"
        THEN [base EXCEPT !.errors = download_file_after(d.ret)]
        ELSE IF status_code(d.ret) = DEVICE_ERROR_CODE
        THEN [base EXCEPT !.events = request \o <<[op |-> "reboot"], [op |-> "wait"]>>,
                          !.errors = download_file_after(d.ret)]
        ELSE [base EXCEPT !.errors = download_file_after(d.ret)]

\* Logger.init_logger: one more console handler and one more file handler
\* on the logger, whatever it already carries
init_logger(n) == n + 1

\* download_tracks moving two tracks on after a success
download_tracks_step_skip(i, ret) ==
    IF ret
    THEN [sleep |-> DELAY_BETWEEN_DOWNLOADING_FILES_SECONDS, next |-> i + 2]
    ELSE [sleep |-> DELAY_AFTER_TIMEOUT_SECONDS, next |-> i]

\* download_tracks after one call of download_file_with_retry returned:
\* the sleep it takes and the track it handles next
download_tracks_step(i, ret) ==
    IF ret
    THEN [sleep |-> DELAY_BETWEEN_DOWNLOADING_FILES_SECONDS, next |-> i + 1]
    ELSE [sleep |-> DELAY_AFTER_TIMEOUT_SECONDS, next |-> i]

\* ------------------------------------------- timestamps in file names
\* a pattern of TimestampExtractor.timestamp_patterns is a sequence of
\* items: a group of n digits, one literal character, or the class [_\s]
D(n) == [kind |-> "digits", n |-> n, c |-> ""]
L(c) == [kind |-> "literal", n |-> 1, c |-> c]
Sep == [kind |-> "sep", n |-> 1, c |-> ""]
Whitespace == {" ", "\t", "\n", "\r", "\f"}

timestamp_patterns ==
    << <<D(4), L("-"), D(2), L("-"), D(2), Sep, D(2), L(":"), D(2), L(":"), D(2)>>,
       <<D(4), D(2), D(2), Sep, D(2), D(2), D(2)>>,
       <<D(2), L("-"), D(2), L("-"), D(4), Sep, D(2), L(":"), D(2), L(":"), D(2)>>,
       <<D(2), L("-"), D(2), L("-"), D(4), Sep, D(2), L(":"), D(2), L(":"), D(2)>>,
       <<D(4), L("_"), D(2), L("_"), D(2), L("_"), D(2), L("_"), D(2), L("_"), D(2)>> >>

\* the items of pattern from the k-th on matched against s at position i:
\* every group has a fixed width, so there is one way to match
RECURSIVE match_at(_, _, _, _)
match_at(s, i, pattern, k) ==
    IF k > Len(pattern) THEN [ok |-> TRUE, groups |-> <<>>]
    ELSE LET item == pattern[k]
             last == i + item.n - 1
             here ==
                 /\ last <= Len(s)
                 /\ CASE item.kind = "digits" -> \A j \in i..last : s[j] \in Digits
                      [] item.kind = "literal" -> s[i] = item.c
                      [] item.kind = "sep" -> s[i] \in {"_"} \cup Whitespace
         IN  IF ~here THEN [ok |-> FALSE, groups |-> <<>>]
             ELSE LET rest == match_at(s, last + 1, pattern, k + 1)
                  IN  IF ~rest.ok THEN rest
                      ELSE IF item.kind = "digits"
                      THEN [ok |-> TRUE, groups |-> <<SubSeq(s, i, last)>> \o rest.groups]
                      ELSE rest

\* re.search(pattern, s): the leftmost match, its groups
re_search(pattern, s) ==
    LET at == {i \in 1..Len(s) : match_at(s, i, pattern, 1).ok}
    IN  IF at = {} THEN [ok |-> FALSE, groups |-> <<>>]
        ELSE match_at(s, CHOOSE i \in at : \A j \in at : i <= j, pattern, 1)

\* the days of a month of the proleptic Gregorian calendar
days_in_month(year, month) ==
    IF month \in {4, 6, 9, 11} THEN 30
    ELSE IF month # 2 THEN 31
    ELSE IF (year % 4 = 0 /\ year % 100 # 0) \/ year % 400 = 0 THEN 29
    ELSE 28

NoDatetime == [year |-> 0, month |-> 0, day |-> 0, hour |-> 0, minute |-> 0, second |-> 0]

\* datetime(year, month, day, hour, minute, second): ValueError outside
\* the ranges of the calendar and of the clock
datetime(year, month, day, hour, minute, second) ==
    IF /\ year \in 1..9999
       /\ month \in 1..12
       /\ day >= 1
       /\ day <= days_in_month(year, month)
       /\ hour <= 23 /\ minute <= 59 /\ second <= 59
    THEN [raised |-> "none", found |-> TRUE,
          value |-> [year |-> year, month |-> month, day |-> day,
                     hour |-> hour, minute |-> minute, second |-> second]]
    ELSE [raised |-> "ValueError", found |-> FALSE, value |-> NoDatetime]

\* TimestampExtractor._extract_from_filename from the k-th pattern on: a
\* match whose first group has four digits assigns the fields and returns
\* nothing, so the loop goes on to the next pattern; a first group of two
\* digits is read as month-day-year and, when that is no date, as
\* day-month-year
RECURSIVE extract_from_pattern(_, _)
extract_from_pattern(filename, k) ==
    IF k > Len(timestamp_patterns)
    THEN [raised |-> "none", found |-> FALSE, value |-> NoDatetime]
    ELSE LET match == re_search(timestamp_patterns[k], filename)
             groups == match.groups
         IN  IF match.ok /\ Len(groups) = 6 /\ Len(groups[1]) = 2
             THEN LET mdy == datetime(int(groups[3]), int(groups[1]), int(groups[2]),
                                      int(groups[4]), int(groups[5]), int(groups[6]))
                  IN  IF mdy.raised = "none" THEN mdy
                      ELSE datetime(int(groups[3]), int(groups[2]), int(groups[1]),
                                    int(groups[4]), int(groups[5]), int(groups[6]))
             ELSE extract_from_pattern(filename, k + 1)

extract_from_filename(filename) == extract_from_pattern(filename, 1)

\* datetime.isoformat for a whole number of seconds
FourDigits(n) ==
    <<DigitChar(n \div 1000), DigitChar((n \div 100) % 10)>> \o TwoDigits(n % 100)
isoformat(dt) ==
    FourDigits(dt.year) \o <<"-">> \o TwoDigits(dt.month) \o <<"-">> \o TwoDigits(dt.day)
    \o <<"T">> \o TwoDigits(dt.hour) \o <<":">> \o TwoDigits(dt.minute)
    \o <<":">> \o TwoDigits(dt.second)

\* extract_timestamps, lines 83-104: the results dictionary as created (an
\* empty text stands for None) and after the file-name method
InitialResults == [filename_timestamp |-> <<>>, methods_used |-> <<>>, errors |-> <<>>]

extract_timestamps(name) ==
    LET r == extract_from_filename(name)
    IN  IF r.raised # "none"
        THEN [InitialResults EXCEPT
                !.errors = <<"Failed to extract timestamp from filename: ValueError">>]
        ELSE IF r.found
        THEN [InitialResults EXCEPT !.filename_timestamp = isoformat(r.value),
                                    !.methods_used = <<"filename_parsing">>]
        ELSE InitialResults

\* the five layouts of a datetime in a file name
Layouts == {"YYYY-MM-DD_HH:MM:SS", "YYYYMMDD_HHMMSS", "MM-DD-YYYY_HH:MM:SS",
            "DD-MM-YYYY_HH:MM:SS", "YYYY_MM_DD_HH_MM_SS"}

LayoutText(layout, dt) ==
    LET y == FourDigits(dt.year)
        mo == TwoDigits(dt.month)
        d == TwoDigits(dt.day)
        h == TwoDigits(dt.hour)
        mi == TwoDigits(dt.minute)
        s == TwoDigits(dt.second)
    IN  CASE layout = "YYYY-MM-DD_HH:MM:SS" ->
               y \o <<"-">> \o mo \o <<"-">> \o d \o <<"_">> \o h \o <<":">> \o mi \o <<":">> \o s
          [] layout = "YYYYMMDD_HHMMSS" -> y \o mo \o d \o <<"_">> \o h \o mi \o s
          [] layout = "MM-DD-YYYY_HH:MM:SS" ->
               mo \o <<"-">> \o d \o <<"-">> \o y \o <<"_">> \o h \o <<":">> \o mi \o <<":">> \o s
          [] layout = "DD-MM-YYYY_HH:MM:SS" ->
               d \o <<"-">> \o mo \o <<"-">> \o y \o <<"_">> \o h \o <<":">> \o mi \o <<":">> \o s
          [] layout = "YYYY_MM_DD_HH_MM_SS" ->
               y \o <<"_">> \o mo \o <<"_">> \o d \o <<"_">> \o h \o <<"_">> \o mi \o <<"_">> \o s

\* the datetimes written into the names, and the names: video_<text>.mp4
NameDatetimes ==
    {dt \in [year : {2024}, month : {1, 2, 12}, day : {5, 15, 29, 31},
             hour : {0, 10, 23}, minute : {0, 30}, second : {0, 59}] :
        dt.day <= days_in_month(dt.year, dt.month)}
NameConfigs == [layout : Layouts, dt : NameDatetimes]
NameText(c) ==
    <<"v", "i", "d", "e", "o", "_">> \o LayoutText(c.layout, c.dt)
    \o <<".", "m", "p", "4">>

\* names that hold no datetime, or digits that are no date in either order
OtherNames ==
    {<<"v", "i", "d", "e", "o", ".", "m", "p", "4">>,
     <<"v", "_", "2", "0", "2", "4", ".", "m", "p", "4">>,
     <<"v", "_">> \o LayoutText("MM-DD-YYYY_HH:MM:SS",
                                [year |-> 2024, month |-> 13, day |-> 13,
                                 hour |-> 10, minute |-> 30, second |-> 0])}
VideoNames == {NameText(c) : c \in NameConfigs} \cup OtherNames

\* ------------------------------------------------------------------- state
\* CameraSdk.init: the class attribute every request reads its timeout from
CameraSdk_init(seconds) == seconds

\* init, line 494: the timeout CameraSdk holds when init returns
init_timeout(current) == CameraSdk_init(DEFAULT_TIMEOUT_SECONDS)

\* main, lines 298-301: --device mode applies the configured timeout when
\* the configuration holds one; legacy mode has none to apply
main_timeout(mode, configured, current) ==
    IF mode = "device" /\ configured # 0 THEN CameraSdk_init(configured) ELSE current

\* main, lines 320 and 335-349: the use_utc_time argument work is given
main_use_utc_time(mode) == TRUE

\* no device store, no file name under analysis
NoDevice == recordings = <<>> /\ call = 1 /\ first_tracks = <<>>
NoName == video_name = <<>> /\ results = InitialResults

\* the state when work is entered after init: the archive directory of the
\* device made by init, one handler per sink, the timeout init left
InitWork(mode, timeout) ==
    /\ pc = "auth"
    /\ accepts \in SUBSET Schemes
    /\ device_tz \in TzTexts
    /\ use_utc_time \in BOOLEAN
    /\ camera_channel = 1
    /\ handlers = init_logger(0)
    /\ dirs = create_directory_for({}, get_path_to_video_archive(CamIp, 1))
    /\ time_offset = 0
    /\ auth_type = "none"
    /\ utc_time_interval = [start_time |-> UserStart, end_time |-> UserEnd,
                            local_time_offset |-> 0]
    /\ tracks = <<>>
    /\ idx = 1
    /\ files = <<>>
    /\ log = <<>>
    /\ errors = <<>>
    /\ escaped = "none"
    /\ cli_mode = mode
    /\ configured_timeout = timeout
    /\ default_timeout_seconds = init_timeout(main_timeout(mode, timeout, DEFAULT_TIMEOUT_SECONDS))
    /\ NoDevice /\ NoName

\* work called directly after init
Init == InitWork("none", 0)

\* work, lines 34-39: get_auth_type and the Unauthorised check
Auth ==
    /\ pc = "auth"
    /\ \E net1 \in {"up"} \cup NetErrors, net2 \in {"up"} \cup NetErrors :
         LET r == get_auth_type(accepts, net1, net2)
             exc == IF r.raised # "none" THEN r.raised ELSE work_auth_check(r.result)
             h == work_except(exc)
         IN  /\ auth_type' = r.result
             /\ log' = log \o r.probes
             /\ IF exc = "none"
                THEN /\ pc' = "offset"
                     /\ UNCHANGED <<errors, escaped>>
                ELSE /\ pc' = "done"
                     /\ errors' = errors \o h.errors
                     /\ escaped' = h.escaped
    /\ UNCHANGED <<accepts, device_tz, use_utc_time, camera_channel, handlers, dirs,
                   time_offset, utc_time_interval, tracks, idx, files>>
    /\ UNCHANGED <<clivars, devvars, namevars>>

\* work asking the device for its offset whatever the mode
work_local_time_offset_always(use_utc, answer) ==
    [requested |-> TRUE] @@ get_time_offset(answer)

\* work, lines 41-45: timedelta() in UTC mode, without a request; the
\* result of get_time_offset otherwise
work_local_time_offset(use_utc, answer) ==
    IF use_utc
    THEN [requested |-> FALSE, raised |-> "none", offset |-> 0, message |-> "none"]
    ELSE [requested |-> TRUE] @@ get_time_offset(answer)

\* work, lines 41-51: the offset (none in UTC mode) and the UTC interval
Offset ==
    /\ pc = "offset"
    /\ \E answer \in TimeAnswers(device_tz) :
         LET r == work_local_time_offset(use_utc_time, answer)
             h == work_except(r.raised)
         IN  /\ log' = IF ~r.requested THEN log
                       ELSE Append(log, [op |-> "time", raised |-> answer.raised,
                                         ok |-> answer.ok, body |-> answer.body,
                                         error |-> r.raised, message |-> r.message])
             /\ IF r.raised = "none"
                THEN /\ pc' = "search"
                     /\ time_offset' = r.offset
                     /\ utc_time_interval' =
                          to_utc([start_time |-> UserStart, end_time |-> UserEnd,
                                  local_time_offset |-> r.offset])
                     /\ UNCHANGED <<errors, escaped>>
                ELSE /\ pc' = "done"
                     /\ errors' = errors \o h.errors
                     /\ escaped' = h.escaped
                     /\ UNCHANGED <<utc_time_interval, time_offset>>
    /\ UNCHANGED <<accepts, device_tz, use_utc_time, camera_channel, handlers, dirs,
                   auth_type, tracks, idx, files>>
    /\ UNCHANGED <<clivars, devvars, namevars>>

\* get_all_tracks: one iteration of its loop (one page request); work goes
\* on to download_videos when the loop ends
SearchPage ==
    /\ pc = "search"
    /\ NumRequests < MaxRequests
    /\ \E answer \in SearchAnswers(NumRequests + 1, utc_time_interval.start_time) :
         LET r == get_all_tracks_step(tracks, utc_time_interval, answer)
             exc == get_all_tracks_raises(answer)
             h == work_except(exc)
         IN  /\ log' = Append(log, [op |-> "search",
                                    start |-> utc_time_interval.start_time,
                                    end |-> utc_time_interval.end_time,
                                    raised |-> answer.raised,
                                    ok |-> answer.ok,
                                    well_formed |-> answer.well_formed,
                                    has_match_list |-> answer.has_match_list,
                                    items |-> answer.items])
             /\ IF exc # "none"
                THEN /\ pc' = "done"
                     /\ tracks' = <<>>
                     /\ errors' = errors \o h.errors
                     /\ escaped' = h.escaped
                     /\ UNCHANGED utc_time_interval
                ELSE /\ tracks' = r.tracks
                     /\ utc_time_interval' = r.interval
                     /\ errors' = errors \o get_video_tracks_info_after(answer.ok)
                     /\ pc' = IF r.more THEN "search"
                              ELSE IF Len(r.tracks) = 0 THEN "done" ELSE "download"
                     /\ UNCHANGED escaped
    /\ UNCHANGED <<accepts, device_tz, use_utc_time, camera_channel, handlers, dirs,
                   time_offset, auth_type, idx, files>>
    /\ UNCHANGED <<clivars, devvars, namevars>>

\* download_tracks: one call of download_file_with_retry for the current
\* track and what the loop does with its result
DownloadAttempt ==
    /\ pc = "download"
    /\ idx <= Len(tracks)
    /\ \E outcome \in DownloadOutcomes :
       \E exif \in (IF outcome = "ok" THEN ExifOutcomes ELSE {"ok"}) :
         LET r == download_file_with_retry(dirs, tracks[idx], idx, camera_channel,
                                           outcome, exif)
             st == download_tracks_step(idx, r.ret)
             h == work_except(r.raised)
         IN  /\ files' = IF r.file = "untouched" THEN files
                         ELSE (r.name :> r.file) @@ files
             /\ dirs' = r.dirs
             /\ IF r.raised # "none"
                THEN /\ log' = log \o r.events
                     /\ errors' = errors \o r.errors \o h.errors
                     /\ escaped' = h.escaped
                     /\ pc' = "done"
                     /\ UNCHANGED idx
                ELSE /\ log' = log \o r.events \o <<[op |-> "sleep", secs |-> st.sleep]>>
                     /\ errors' = errors \o r.errors
                     /\ idx' = st.next
                     /\ pc' = IF st.next > Len(tracks) THEN "done" ELSE "download"
                     /\ UNCHANGED escaped
    /\ UNCHANGED <<accepts, device_tz, use_utc_time, camera_channel, handlers,
                   time_offset, auth_type, utc_time_interval, tracks>>
    /\ UNCHANGED <<clivars, devvars, namevars>>

Next == Auth \/ Offset \/ SearchPage \/ DownloadAttempt

Spec == Init /\ [][Next]_vars

\* work runs in one thread that keeps going: a pending download attempt is
\* eventually made
FairSpec == Spec /\ WF_vars(DownloadAttempt)

\* ---------------------------------------------- offset resolution alone
\* work at line 45, in local-time mode, against devices reporting every
\* timezone text of TzTextsAll
InitTz ==
    /\ pc = "offset"
    /\ accepts = {"BASIC"}
    /\ device_tz \in TzTextsAll
    /\ use_utc_time = FALSE
    /\ camera_channel = 1
    /\ handlers = init_logger(0)
    /\ dirs = create_directory_for({}, get_path_to_video_archive(CamIp, 1))
    /\ time_offset = 0
    /\ auth_type = "BASIC"
    /\ utc_time_interval = [start_time |-> UserStart, end_time |-> UserEnd,
                            local_time_offset |-> 0]
    /\ tracks = <<>>
    /\ idx = 1
    /\ files = <<>>
    /\ log = <<Probe("BASIC", make_get_request("BASIC", {"BASIC"}, "up"))>>
    /\ errors = <<>>
    /\ escaped = "none"
    /\ cli_mode = "none"
    /\ configured_timeout = 0
    /\ default_timeout_seconds = init_timeout(DEFAULT_TIMEOUT_SECONDS)
    /\ NoDevice /\ NoName

NextTz == Offset

SpecTz == InitTz /\ [][NextTz]_vars

\* ------------------------------------------------ one process, all cameras
\* download_from_all_cameras, lines 171-188: the next camera of the loop;
\* init attaches its handlers and work starts afresh in UTC mode
NextCamera ==
    /\ pc = "done"
    /\ camera_channel < MaxCameras
    /\ camera_channel' = camera_channel + 1
    /\ handlers' = init_logger(handlers)
    /\ dirs' = create_directory_for(
                   dirs, get_path_to_video_archive(CamIp, camera_channel + 1))
    /\ pc' = "auth"
    /\ auth_type' = "none"
    /\ time_offset' = 0
    /\ utc_time_interval' = [start_time |-> UserStart, end_time |-> UserEnd,
                             local_time_offset |-> 0]
    /\ tracks' = <<>>
    /\ idx' = 1
    /\ files' = <<>>
    /\ log' = <<>>
    /\ errors' = <<>>
    /\ escaped' = "none"
    /\ default_timeout_seconds' = init_timeout(default_timeout_seconds)
    /\ UNCHANGED <<accepts, device_tz, use_utc_time, cli_mode, configured_timeout,
                   devvars, namevars>>

\* the timeout of the device configuration download_from_all_cameras reads
\* (line 119) and hands to CameraSdk.init (line 129)
BatchTimeouts == {30}

\* the device accepted a scheme when download_from_all_cameras probed it
\* (line 143), and work is called with use_utc_time = True (line 188)
InitCameras ==
    /\ \E timeout \in BatchTimeouts : InitWork("batch", timeout)
    /\ use_utc_time = TRUE
    /\ accepts # {}

NextCameras == Next \/ NextCamera

SpecCameras == InitCameras /\ [][NextCameras]_vars

\* ------------------------------------------------------ the command line
\* the timeouts a device configuration can hold; 0 stands for none
ConfiguredTimeouts == {0, DEFAULT_TIMEOUT_SECONDS, 30}
CliModes == {"device", "legacy"}

\* main is entered: the class attribute has its initial value (camerasdk.py
\* line 31), nothing is initialised yet
InitCli ==
    /\ pc = "cli"
    /\ accepts \in SUBSET Schemes
    /\ device_tz \in TzTexts
    /\ use_utc_time = FALSE
    /\ camera_channel = 1
    /\ handlers = 0
    /\ dirs = {}
    /\ time_offset = 0
    /\ auth_type = "none"
    /\ utc_time_interval = [start_time |-> UserStart, end_time |-> UserEnd,
                            local_time_offset |-> 0]
    /\ tracks = <<>>
    /\ idx = 1
    /\ files = <<>>
    /\ log = <<>>
    /\ errors = <<>>
    /\ escaped = "none"
    /\ cli_mode \in CliModes
    /\ configured_timeout \in (IF cli_mode = "device" THEN ConfiguredTimeouts ELSE {0})
    /\ default_timeout_seconds = DEFAULT_TIMEOUT_SECONDS
    /\ NoDevice /\ NoName

\* main, lines 285-320 (--device) and 334-349 (legacy): the configured
\* timeout is applied, init runs, and work is called
Main ==
    /\ pc = "cli"
    /\ default_timeout_seconds' =
         init_timeout(main_timeout(cli_mode, configured_timeout, default_timeout_seconds))
    /\ handlers' = init_logger(handlers)
    /\ dirs' = create_directory_for(dirs, get_path_to_video_archive(CamIp, camera_channel))
    /\ use_utc_time' = main_use_utc_time(cli_mode)
    /\ pc' = "auth"
    /\ UNCHANGED <<accepts, device_tz, camera_channel, time_offset, auth_type,
                   utc_time_interval, tracks, idx, files, log, errors, escaped,
                   cli_mode, configured_timeout, devvars, namevars>>

NextCli == Main \/ Next

SpecCli == InitCli /\ [][NextCli]_vars

\* --------------------------------------------------- nvr_analysis alone
\* no run of work: nothing requested, nothing on disk
NoWork ==
    /\ accepts = {}
    /\ device_tz = <<>>
    /\ use_utc_time = TRUE
    /\ camera_channel = 1
    /\ handlers = 0
    /\ dirs = {}
    /\ time_offset = 0
    /\ auth_type = "none"
    /\ utc_time_interval = [start_time |-> UserStart, end_time |-> UserEnd,
                            local_time_offset |-> 0]
    /\ tracks = <<>>
    /\ idx = 1
    /\ files = <<>>
    /\ log = <<>>
    /\ errors = <<>>
    /\ escaped = "none"
    /\ cli_mode = "none"
    /\ configured_timeout = 0
    /\ default_timeout_seconds = DEFAULT_TIMEOUT_SECONDS

\* extract_timestamps is entered with the path of an existing video file
InitName ==
    /\ pc = "extract"
    /\ NoWork /\ NoDevice
    /\ video_name \in VideoNames
    /\ results = InitialResults

\* extract_timestamps, lines 94-104: the file-name method
ExtractTimestamps ==
    /\ pc = "extract"
    /\ results' = extract_timestamps(video_name)
    /\ pc' = "done"
    /\ UNCHANGED <<accepts, device_tz, use_utc_time, camera_channel, handlers, dirs,
                   time_offset, auth_type, utc_time_interval, tracks, idx, files,
                   log, errors, escaped, clivars, devvars, video_name>>

NextName == ExtractTimestamps

SpecName == InitName /\ [][NextName]_vars

\* ------------------------------------------- searches of a stored archive
\* page requests a run of this part may issue, over both calls
MaxStoreRequests == 6

\* n recordings of the same length, one after the other from base on, and
\* n recordings of one span (clips of one event)
Contiguous(n, base, length) ==
    [k \in 1..n |-> [id |-> k, start |-> base + (k - 1) * length,
                     end |-> base + k * length]]
Burst(n, from, to) == [k \in 1..n |-> [id |-> k, start |-> from, end |-> to]]

\* the archives of the devices searched: finitely many recordings each
Stores ==
    {Contiguous(n, base, length) :
        n \in {0, 1, 49, 50, 51, 99, 100, 120}, base \in {0, 7}, length \in {1, 2}}
    \cup {Burst(n, 0, 5) : n \in {49, 50, 60}}
    \cup {Burst(n, 5, 9) : n \in {49, 50, 60}}

\* the ends of the windows searched
StoreWindowEnds == {UserEnd, UserEnd + 300}

\* the answer of the device to a page request (camerasdk.py lines 368-416:
\* maxResults is the page size, searchResultPostion is 0): the first
\* recordings, in the order of the archive, that overlap the closed window
StoreAnswer(recs, interval) ==
    LET hits == SelectSeq(recs, LAMBDA r : /\ r.start <= interval.end_time
                                          /\ r.end >= interval.start_time)
        items == IF Len(hits) <= MAX_VIDEOS_NUMBER_IN_ONE_REQUEST THEN hits
                 ELSE SubSeq(hits, 1, MAX_VIDEOS_NUMBER_IN_ONE_REQUEST)
    IN  [raised |-> "none", ok |-> TRUE, well_formed |-> TRUE,
         has_match_list |-> items # <<>>, items |-> items]

\* get_all_tracks is entered, in UTC mode, with the interval object of the
\* caller
InitStore ==
    /\ pc = "search"
    /\ accepts = {"BASIC"}
    /\ device_tz \in TzTexts
    /\ use_utc_time = TRUE
    /\ camera_channel = 1
    /\ handlers = init_logger(0)
    /\ dirs = create_directory_for({}, get_path_to_video_archive(CamIp, 1))
    /\ time_offset = 0
    /\ auth_type = "BASIC"
    /\ \E window_end \in StoreWindowEnds :
          utc_time_interval = [start_time |-> UserStart, end_time |-> window_end,
                               local_time_offset |-> 0]
    /\ tracks = <<>>
    /\ idx = 1
    /\ files = <<>>
    /\ log = <<>>
    /\ errors = <<>>
    /\ escaped = "none"
    /\ cli_mode = "none"
    /\ configured_timeout = 0
    /\ default_timeout_seconds = init_timeout(DEFAULT_TIMEOUT_SECONDS)
    /\ recordings \in Stores
    /\ call = 1
    /\ first_tracks = <<>>
    /\ NoName

\* get_all_tracks: one iteration of its loop against the archive
SearchStored ==
    /\ pc = "search"
    /\ NumRequests < MaxStoreRequests
    /\ LET answer == StoreAnswer(recordings, utc_time_interval)
           r == get_all_tracks_step(tracks, utc_time_interval, answer)
       IN  /\ log' = Append(log, [op |-> "search",
                                  start |-> utc_time_interval.start_time,
                                  end |-> utc_time_interval.end_time,
                                  raised |-> answer.raised,
                                  ok |-> answer.ok,
                                  well_formed |-> answer.well_formed,
                                  has_match_list |-> answer.has_match_list,
                                  items |-> answer.items])
           /\ tracks' = r.tracks
           /\ utc_time_interval' = r.interval
           /\ pc' = IF r.more THEN "search" ELSE "returned"
    /\ UNCHANGED <<accepts, device_tz, use_utc_time, camera_channel, handlers, dirs,
                   time_offset, auth_type, idx, files, errors, escaped,
                   clivars, devvars, namevars>>

\* the caller keeps the list and calls get_all_tracks again with the same
\* interval object
CallAgain ==
    /\ pc = "returned"
    /\ call = 1
    /\ first_tracks' = tracks
    /\ tracks' = <<>>
    /\ call' = 2
    /\ pc' = "search"
    /\ UNCHANGED <<accepts, device_tz, use_utc_time, camera_channel, handlers, dirs,
                   time_offset, auth_type, utc_time_interval, idx, files, log,
                   errors, escaped, clivars, recordings, namevars>>

NextStore == SearchStored \/ CallAgain

SpecStore == InitStore /\ [][NextStore]_vars
\* ------------------------------------------------------------- properties
\* the auth probes, the search page requests and the download requests of
\* the run, each in the order issued
ProbeLog == SelectSeq(log, LAMBDA e : e.op = "probe")
SearchLog == SelectSeq(log, LAMBDA e : e.op = "search")
DownloadLog == SelectSeq(log, LAMBDA e : e.op = "download")
ProbeSchemes == [k \in 1..Len(ProbeLog) |-> ProbeLog[k].scheme]
NoProbeNetError == \A k \in 1..Len(ProbeLog) : ProbeLog[k].raised = "none"
\* a download attempt for which download_file_with_retry returned True
Succeeded(e) == e.outcome = "ok" /\ e.raised = "none"

\* C1: get_auth_type probes with Basic first and Digest second; a device
\* accepting only Basic yields BASIC after the Basic probe alone, one
\* accepting only Digest yields DIGEST after one failed Basic probe, one
\* accepting neither yields UNAUTHORISED after exactly one probe of each.
C1_ProbeOrder ==
    (pc # "auth" /\ NoProbeNetError) =>
        /\ ProbeSchemes \in {<<"BASIC">>, <<"BASIC", "DIGEST">>}
        /\ accepts = {"BASIC"} =>
               auth_type = "BASIC" /\ ProbeSchemes = <<"BASIC">>
        /\ accepts = {"DIGEST"} =>
               /\ auth_type = "DIGEST"
               /\ ProbeSchemes = <<"BASIC", "DIGEST">>
               /\ ~ProbeLog[1].ok
        /\ accepts = {} =>
               /\ auth_type = "UNAUTHORISED"
               /\ ProbeSchemes = <<"BASIC", "DIGEST">>

C1_Witness ==
    /\ pc # "auth" /\ NoProbeNetError
    /\ accepts = {"DIGEST"} /\ auth_type = "DIGEST"

\* C9: when neither scheme is accepted work ends at once: one Unauthorised
\* error is reported, the probes are not repeated and no time, search,
\* download or reboot request is issued.
C9_UnauthorisedFatal ==
    auth_type = "UNAUTHORISED" =>
        /\ pc = "done"
        /\ errors = <<[level |-> "exception", msg |-> "RuntimeError"]>>
        /\ escaped = "none"
        /\ Len(log) = 2
        /\ \A k \in 1..Len(log) : log[k].op = "probe"
        /\ tracks = <<>> /\ files = <<>>

C9_Witness ==
    auth_type = "UNAUTHORISED" /\ pc = "done" /\ Len(errors) = 1

\* C10 as stated: a network error during a probe counts as a rejection, so
\* the next scheme is still probed and, no probe succeeding, the result is
\* UNAUTHORISED.
C10_NetErrorAsRejection ==
    (pc # "auth" /\ ~NoProbeNetError) =>
        /\ (\E k \in 1..Len(ProbeLog) : ProbeLog[k].ok)
              \/ ProbeSchemes = <<"BASIC", "DIGEST">>
        /\ (\A k \in 1..Len(ProbeLog) : ~ProbeLog[k].ok)
              => auth_type = "UNAUTHORISED"

\* C10 amended: a network error during a probe leaves get_auth_type as an
\* exception: that probe is the last one, no auth type is returned, work
\* logs the error once and ends with no further request.
C10_NetErrorRaises ==
    \A k \in 1..Len(ProbeLog) :
        ProbeLog[k].raised # "none" =>
            /\ k = Len(ProbeLog)
            /\ Len(log) = k
            /\ auth_type = "none"
            /\ pc = "done"
            /\ errors = work_except(ProbeLog[k].raised).errors
            /\ Len(errors) = 1
            /\ escaped = "none"

C10_Witness ==
    /\ pc = "done"
    /\ Len(ProbeLog) = 2
    /\ ~ProbeLog[1].ok /\ ProbeLog[1].raised = "none"
    /\ ProbeLog[2].raised = "ReadTimeout"
\* the tracks of the pages of a search log, page after page, each page in
\* the order of its match items
RECURSIVE ConcatPages(_, _)
ConcatPages(sl, off) ==
    IF sl = <<>> THEN <<>>
    ELSE LET last == sl[Len(sl)]
         IN  ConcatPages(SubSeq(sl, 1, Len(sl) - 1), off)
                \o [k \in 1..Len(last.items) |->
                      [uri |-> last.items[k], local_time_offset |-> off]]
PageSizesSeen == [k \in 1..Len(SearchLog) |-> Len(SearchLog[k].items)]
AllPagesOk ==
    \A k \in 1..Len(SearchLog) :
        SearchLog[k].raised = "none" /\ SearchLog[k].ok /\ SearchLog[k].well_formed

\* C4: while every page request succeeds, get_all_tracks requests pages up
\* to and including the first one with fewer than 50 tracks and none after
\* it, and its list is the in-order concatenation of the pages received;
\* sizes [50, 50, 3] give three requests and 103 tracks, a short first page
\* gives one request, and a full page always leaves the loop requesting.
C4_Pagination ==
    LET n == Len(SearchLog)
    IN  AllPagesOk =>
        /\ tracks = ConcatPages(SearchLog, utc_time_interval.local_time_offset)
        /\ \A k \in 1..(n - 1) : PageSizesSeen[k] = MAX_VIDEOS_NUMBER_IN_ONE_REQUEST
        /\ (n > 0 /\ PageSizesSeen[n] < MAX_VIDEOS_NUMBER_IN_ONE_REQUEST)
              => pc \in {"download", "done"}
        /\ (n > 0 /\ PageSizesSeen[n] = MAX_VIDEOS_NUMBER_IN_ONE_REQUEST)
              => pc = "search"
        /\ pc = "download" => n > 0
        /\ (n = 3 /\ PageSizesSeen[3] = 3) => Len(tracks) = 103
        /\ (n >= 1 /\ PageSizesSeen[1] < MAX_VIDEOS_NUMBER_IN_ONE_REQUEST) => n = 1

C4_Witness ==
    /\ AllPagesOk
    /\ PageSizesSeen = <<50, 50, 3>>
    /\ Len(tracks) = 103
    /\ pc = "download"

\* C5: a page request answered with a non-success status is the last
\* request of the search and of the run: get_all_tracks returns no track,
\* whatever the earlier pages held, and nothing is downloaded.
C5_FailedPageEmpties ==
    \A k \in 1..Len(SearchLog) :
        (SearchLog[k].raised = "none" /\ ~SearchLog[k].ok) =>
            /\ k = Len(SearchLog)
            /\ log[Len(log)] = SearchLog[k]
            /\ tracks = <<>>
            /\ pc = "done"
            /\ DownloadLog = <<>>

C5_Witness ==
    /\ Len(SearchLog) = 3
    /\ PageSizesSeen[1] = 50 /\ PageSizesSeen[2] = 50
    /\ SearchLog[3].raised = "none" /\ ~SearchLog[3].ok
    /\ tracks = <<>> /\ pc = "done"

\* C6: a successful search answer without a match list ends the search
\* without an error: create_tracks_from_info yields no tracks for it, no
\* further page is requested, and as a first page it gives zero tracks
\* after exactly one request, nothing raised and nothing logged as error.
C6_AbsentMatchList ==
    \A k \in 1..Len(SearchLog) :
        (SearchLog[k].raised = "none" /\ SearchLog[k].ok
            /\ SearchLog[k].well_formed /\ ~SearchLog[k].has_match_list) =>
            /\ create_tracks_from_info(SearchLog[k], 0) = <<>>
            /\ k = Len(SearchLog)
            /\ pc # "search"
            /\ Len(tracks) = MAX_VIDEOS_NUMBER_IN_ONE_REQUEST * (k - 1)
            /\ k = 1 => /\ tracks = <<>>
                        /\ pc = "done"
                        /\ log[Len(log)] = SearchLog[1]
                        /\ errors = <<>>
                        /\ escaped = "none"

C6_Witness ==
    /\ Len(SearchLog) = 1
    /\ SearchLog[1].raised = "none" /\ SearchLog[1].ok
    /\ SearchLog[1].well_formed /\ ~SearchLog[1].has_match_list
    /\ tracks = <<>> /\ pc = "done"
\* C8: download_tracks takes the tracks in list order, one at a time: the
\* first attempt is for track 1, an attempt for the next track follows only
\* a successful attempt for the current one, each success is followed by
\* the inter-download delay, and a download phase in which every attempt
\* succeeds ends with every track of the list downloaded.
C8_Order ==
    LET dl == DownloadLog
    IN  /\ \A k \in 1..Len(dl) : dl[k].track \in 1..Len(tracks)
        /\ Len(dl) > 0 => dl[1].track = 1
        /\ \A k \in 1..(Len(dl) - 1) :
              dl[k + 1].track = IF Succeeded(dl[k]) THEN dl[k].track + 1
                                ELSE dl[k].track
        /\ \A j \in 1..Len(log) :
              (log[j].op = "download" /\ Succeeded(log[j])) =>
                  /\ j < Len(log)
                  /\ log[j + 1] = [op |-> "sleep",
                                   secs |-> DELAY_BETWEEN_DOWNLOADING_FILES_SECONDS]
        /\ (pc = "done" /\ Len(tracks) > 0
              /\ \A k \in 1..Len(dl) : Succeeded(dl[k])) =>
                  /\ [k \in 1..Len(dl) |-> dl[k].track] = [k \in 1..Len(tracks) |-> k]
                  /\ \A i \in 1..Len(tracks) :
                        /\ file_name(tracks[i], camera_channel) \in DOMAIN files
                        /\ files[file_name(tracks[i], camera_channel)] = "complete"

C8_Sequential ==
    /\ []C8_Order
    /\ (pc = "download") ~> (pc = "done")

C8_Witness ==
    /\ pc = "done"
    /\ Len(tracks) = 53
    /\ Len(DownloadLog) = 53
    /\ \A k \in 1..Len(DownloadLog) : Succeeded(DownloadLog[k])

\* C2 as stated: a download attempt answered with the internal-error
\* status is followed by the reboot command, the wait for the device and a
\* further attempt for the same track before the run ends.
C2_RebootWaitRetry ==
    \A j \in 1..Len(log) :
        (log[j].op = "download" /\ log[j].outcome = "http500") =>
            /\ Len(log) >= j + 2
            /\ log[j + 1].op = "reboot"
            /\ log[j + 2].op = "wait"
            /\ pc = "done" =>
                  \E m \in (j + 1)..Len(log) :
                      log[m].op = "download" /\ log[m].track = log[j].track

\* C3 as stated: a download attempt that fails for another reason is
\* followed by the fixed delay and a further attempt for the same track,
\* with no reboot and without ending the run.
C3_DelayRetry ==
    \A j \in 1..Len(log) :
        (log[j].op = "download" /\ log[j].outcome \in NetErrors \cup {"http401"}) =>
            /\ \A m \in 1..Len(log) : log[m].op # "reboot"
            /\ Len(log) > j
            /\ log[j + 1] = [op |-> "sleep", secs |-> DELAY_AFTER_TIMEOUT_SECONDS]
            /\ pc = "done" =>
                  \E m \in (j + 1)..Len(log) :
                      log[m].op = "download" /\ log[m].track = log[j].track

\* C7 as stated: an attempt cut short after the file was opened is retried,
\* and when the run has ended every file at a track's path is complete.
C7_NoPartialFile ==
    /\ pc = "done" => \A name \in DOMAIN files : files[name] = "complete"
    /\ \A j \in 1..Len(log) :
          (log[j].op = "download" /\ log[j].outcome \in {"stream_error", "interrupt"}
              /\ pc = "done") =>
                \E m \in (j + 1)..Len(log) :
                    log[m].op = "download" /\ log[m].track = log[j].track

\* C11 as stated: a page request that meets a network error is followed by
\* the fixed delay and a further page request; it does not end the search
\* or the run.
C11_SearchRetried ==
    \A j \in 1..Len(log) :
        (log[j].op = "search" /\ log[j].raised \in NetErrors) =>
            /\ pc # "done"
            /\ Len(log) > j =>
                  /\ log[j + 1] = [op |-> "sleep",
                                   secs |-> DELAY_AFTER_TIMEOUT_SECONDS]
                  /\ \E m \in (j + 1)..Len(log) : log[m].op = "search"

\* C11 amended: a network error during a page request is not retried: the
\* exception leaves get_all_tracks, so that request is the last request of
\* the run, no delay follows it, the tracks of earlier pages are dropped,
\* nothing is downloaded, and work logs the error once and returns.
C11_SearchNetErrorEndsRun ==
    \A j \in 1..Len(log) :
        (log[j].op = "search" /\ log[j].raised \in NetErrors) =>
            /\ j = Len(log)
            /\ pc = "done"
            /\ tracks = <<>>
            /\ files = <<>>
            /\ errors = work_except(log[j].raised).errors
            /\ Len(errors) = 1
            /\ escaped = "none"

C11_Witness ==
    /\ pc = "done"
    /\ Len(SearchLog) = 2
    /\ PageSizesSeen[1] = MAX_VIDEOS_NUMBER_IN_ONE_REQUEST
    /\ SearchLog[2].raised = "ConnectionError"
    /\ tracks = <<>>

\* the run met a failure of one of its four operations: a probe, the time
\* request, a page request or a download request that raised, was answered
\* with a non-success status or carried a body that is not XML
OperationFailed ==
    \/ auth_type = "UNAUTHORISED"
    \/ \E j \in 1..Len(log) :
          \/ log[j].op = "probe" /\ log[j].raised # "none"
          \/ log[j].op = "time" /\ log[j].error # "none"
          \/ log[j].op = "search"
                /\ (log[j].raised # "none" \/ ~log[j].ok \/ ~log[j].well_formed)
          \/ log[j].op = "download"
                /\ log[j].outcome \in NetErrors \cup {"http500", "http401", "stream_error"}

\* C12: no exception leaves work for a failure of authentication, offset
\* resolution, search or download, be it a connection error, an error
\* answer of the device or a body that is not XML: work has logged an
\* error and returned; only an interrupt of the user leaves work.
C12_NoEscape ==
    /\ escaped # "none" =>
          /\ escaped = "KeyboardInterrupt"
          /\ log[Len(log)].op = "download" /\ log[Len(log)].outcome = "interrupt"
    /\ OperationFailed =>
          /\ pc = "done"
          /\ escaped = "none"
          /\ Len(errors) >= 1

C12_Witness ==
    /\ pc = "done"
    /\ Len(SearchLog) = 1
    /\ SearchLog[1].raised = "none" /\ SearchLog[1].ok /\ ~SearchLog[1].well_formed
    /\ errors = <<[level |-> "exception", msg |-> "ParseError"]>>
    /\ escaped = "none"

\* C13 as stated: a successful answer of the time endpoint whose body has
\* no timezone field, or whose timezone text holds no offset, makes
\* get_time_offset return a zero offset without raising, and the run goes
\* on to the search.
C13_ZeroOffsetOnParseFailure ==
    \A j \in 1..Len(log) :
        (/\ log[j].op = "time" /\ log[j].raised = "none" /\ log[j].ok
         /\ \/ log[j].body = "time_without_tz"
            \/ log[j].body = "time" /\ device_tz \in TzGarbage) =>
            /\ log[j].error = "none"
            /\ time_offset = 0
            /\ utc_time_interval.end_time = UserEnd
            /\ pc = "done" => SearchLog # <<>>

\* C14 as stated: a non-success answer of the time endpoint makes
\* get_time_offset raise an error that carries the message extracted from
\* the device's answer, and work issues no search and no download request.
C14_NonSuccessRaisesMessage ==
    \A j \in 1..Len(log) :
        (log[j].op = "time" /\ log[j].raised = "none" /\ ~log[j].ok) =>
            /\ log[j].error = "RuntimeError"
            /\ log[j].message # "none"
            /\ j = Len(log)
            /\ pc = "done"
            /\ SearchLog = <<>> /\ DownloadLog = <<>>

\* the text of every device configuration
TzTable == [c \in TzConfigs |-> TzText(c)]

\* the offset a timezone text stands for, negated: the base offset is the
\* signed duration H:MM:SS, the daylight saving bias is added to it
ExpectedOffset(c) ==
    IF c.sign = "" THEN 0
    ELSE 0 - ((IF c.sign = "-" THEN 0 - 1 ELSE 1) * (c.h * 3600 + c.m * 60 + c.s)
                + (IF c.dst THEN c.dh * 3600 + c.dm * 60 ELSE 0))

\* C15 as stated: parse_timezone drops the zone name, reads the base offset
\* sign H:MM:SS, adds the DST H:MM:SS when present and returns the negation
\* of the sum; "CST+5:00:00" gives -5 h, "CST+5:00:00DST01:00:00" gives
\* -6 h, a text without a signed H:MM:SS gives zero.
C15_ParseTimezone ==
    pc = "search" =>
        /\ \A c \in TzConfigs :
              TzTable[c] = device_tz => time_offset = ExpectedOffset(c)
        /\ device_tz \in TzGarbage => time_offset = 0
        /\ device_tz = <<"C", "S", "T", "+", "5", ":", "0", "0", ":", "0", "0">>
              => time_offset = 0 - 5 * 3600
        /\ device_tz = <<"C", "S", "T", "+", "5", ":", "0", "0", ":", "0", "0",
                         "D", "S", "T", "0", "1", ":", "0", "0", ":", "0", "0">>
              => time_offset = 0 - 6 * 3600

\* the intervals of the run: the one work builds from the user's range and
\* the resolved offset, the one it hands to the search, and the one of
\* every track found
RunIntervals ==
    {[start_time |-> UserStart, end_time |-> UserEnd,
      local_time_offset |-> time_offset],
     utc_time_interval}
    \cup {get_time_interval(tracks[k]) : k \in 1..Len(tracks)}

\* C16 as stated: to_utc(to_local_time(interval)) is the interval again, on
\* start, end and local offset.
C16_RoundTrip ==
    \A ti \in RunIntervals : to_utc(to_local_time(ti)) = ti

\* C16 amended: to_utc(to_local_time(interval)) has the start and the end
\* of the interval and a zero local offset; it is the interval again
\* exactly when the interval's offset is zero.
C16_RoundTripStartEnd ==
    \A ti \in RunIntervals :
        LET back == to_utc(to_local_time(ti))
        IN  /\ back.start_time = ti.start_time
            /\ back.end_time = ti.end_time
            /\ back.local_time_offset = 0
            /\ (back = ti) <=> (ti.local_time_offset = 0)

C16_Witness ==
    /\ pc = "download"
    /\ time_offset # 0
    /\ Len(tracks) > 0

\* C17 as stated: every file of the run is at
\* video/<device>/camera<channel>/<local start>.mp4 for a track of the
\* list, the local start being the track's UTC start plus the offset
\* resolved for the run; its directory exists; and every track whose
\* download succeeded has its file there.
C17_LocalTimePath ==
    LET path(k) == <<"video", CamIp, <<"camera", camera_channel>>,
                     <<tracks[k].uri.start + time_offset, ".mp4">> >>
    IN  /\ \A name \in DOMAIN files :
              /\ \E k \in 1..Len(tracks) : name = path(k)
              /\ dirname(name) \in dirs
        /\ \A j \in 1..Len(log) :
              (log[j].op = "download" /\ log[j].outcome = "ok") =>
                  path(log[j].track) \in DOMAIN files

\* C18 as stated: whatever exiftool does, an attempt whose download request
\* succeeded makes download_file_with_retry return True: the
\* inter-download delay follows and the next track is attempted.
C18_StampNeverFails ==
    \A j \in 1..Len(log) :
        (log[j].op = "download" /\ log[j].outcome = "ok") =>
            /\ log[j].raised = "none"
            /\ Len(log) > j
            /\ log[j + 1] = [op |-> "sleep",
                             secs |-> DELAY_BETWEEN_DOWNLOADING_FILES_SECONDS]
            /\ (pc = "done" /\ log[j].track < Len(tracks)) =>
                  \E m \in (j + 1)..Len(log) :
                      log[m].op = "download" /\ log[m].track = log[j].track + 1

\* a finished run in UTC mode whose search took two page requests, both
\* answered with success, and whose download attempts all succeeded
TwoPagesAllDownloaded ==
    /\ use_utc_time
    /\ pc = "done" /\ escaped = "none"
    /\ Len(SearchLog) = 2 /\ AllPagesOk
    /\ DownloadLog # <<>>
    /\ \A k \in 1..Len(DownloadLog) : Succeeded(DownloadLog[k])

C20_SingleMessage ==
    (pc = "done" /\ OperationFailed /\ escaped = "none") =>
        Len(errors) * handlers = 1

\* C21 as stated: get_error_message_from returns a diagnostic string for
\* every answer of the device without raising: the formatted
\* "Error status reason: statusString - subStatusCode" text for the
\* ResponseStatus envelope and the body text for every other body.
C21_MessageForEveryAnswer ==
    \A j \in 1..Len(log) :
        (log[j].op = "time" /\ log[j].raised = "none" /\ ~log[j].ok) =>
            LET m == get_error_message_from([body |-> log[j].body])
            IN  /\ m.raised = "none"
                /\ m.message = IF log[j].body = "envelope"
                               THEN "Error status reason: statusString - subStatusCode"
                               ELSE "body text"
                /\ log[j].message = m.message

\* C22 as stated: run from the command line, in legacy IP mode or in
\* --device mode, work is invoked in camera-local-time mode: the device's
\* time offset is requested before the first search request, and the
\* interval searched is the user's interval shifted by that offset.
C22_CliLocalTime ==
    pc # "cli" =>
        /\ ~use_utc_time
        /\ SearchLog # <<>> =>
             /\ \E j \in 1..Len(log) : log[j].op = "time" /\ log[j].error = "none"
             /\ SearchLog[1].start = to_utc([start_time |-> UserStart,
                                             end_time |-> UserEnd,
                                             local_time_offset |-> time_offset]).start_time

\* C29 as stated: in --device mode the timeout stored in the device's
\* configuration is the timeout in force for every request work issues:
\* CameraSdk.default_timeout_seconds equals the configured value from the
\* moment work starts.
C29_ConfiguredTimeoutInForce ==
    (pc # "cli" /\ cli_mode = "device" /\ configured_timeout # 0) =>
        default_timeout_seconds = configured_timeout

\* C23 as stated: for a file name that holds a datetime in one of the five
\* layouts, _extract_from_filename returns that datetime and
\* extract_timestamps reports it as filename_timestamp; for a name that
\* matches no layout the result is None.
C23_FilenameTimestamp ==
    pc = "done" =>
        /\ \A c \in NameConfigs :
             video_name = NameText(c) =>
                 /\ extract_from_filename(video_name) =
                      [raised |-> "none", found |-> TRUE, value |-> c.dt]
                 /\ results.filename_timestamp = isoformat(c.dt)
        /\ (\A k \in 1..Len(timestamp_patterns) :
               ~re_search(timestamp_patterns[k], video_name).ok) =>
                 /\ ~extract_from_filename(video_name).found
                 /\ results.filename_timestamp = <<>>

\* a page answer that holds the page size of match items
FullPage(e) == e.raised = "none" /\ e.ok /\ Len(e.items) = MAX_VIDEOS_NUMBER_IN_ONE_REQUEST

\* C24: after a full page the next page request starts at the end
\* timestamp of the last track of that page, with the end of the window and
\* the local offset unchanged; the advance is made on the interval object
\* the caller passed (it holds the advanced start afterwards), and a search
\* that needs one page leaves that object as the caller built it.
C24_AdvanceInPlace ==
    LET n == Len(SearchLog)
        built == to_utc([start_time |-> UserStart, end_time |-> UserEnd,
                         local_time_offset |-> time_offset])
    IN  /\ \A k \in 1..(n - 1) :
              /\ FullPage(SearchLog[k])
              /\ SearchLog[k + 1].start =
                   SearchLog[k].items[MAX_VIDEOS_NUMBER_IN_ONE_REQUEST].end
              /\ SearchLog[k + 1].end = SearchLog[k].end
        /\ n > 0 =>
              /\ SearchLog[1].start = built.start_time
              /\ utc_time_interval.start_time =
                   IF FullPage(SearchLog[n])
                   THEN SearchLog[n].items[MAX_VIDEOS_NUMBER_IN_ONE_REQUEST].end
                   ELSE SearchLog[n].start
              /\ utc_time_interval.end_time = built.end_time
              /\ utc_time_interval.local_time_offset = built.local_time_offset
        /\ (n = 1 /\ ~FullPage(SearchLog[1])) => utc_time_interval = built

\* a search of several pages has ended and the caller's interval object
\* holds the advanced start
C24_Witness ==
    /\ pc \in {"download", "done"}
    /\ Len(SearchLog) >= 2
    /\ ~FullPage(SearchLog[Len(SearchLog)])
    /\ SearchLog[Len(SearchLog)].raised = "none"
    /\ utc_time_interval.start_time > SearchLog[1].start

\* C25: in UTC mode work does not resolve the device's time offset: no
\* request to the time endpoint other than the authentication probes is
\* issued, the interval is built with a zero local offset, and the search
\* requests carry the user's start and end unshifted.
C25_UtcModeNoOffset ==
    use_utc_time =>
        /\ \A j \in 1..Len(log) : log[j].op # "time"
        /\ time_offset = 0
        /\ utc_time_interval.local_time_offset = 0
        /\ utc_time_interval.end_time = UserEnd
        /\ SearchLog # <<>> =>
              /\ SearchLog[1].start = UserStart
              /\ \A k \in 1..Len(SearchLog) : SearchLog[k].end = UserEnd

\* a UTC-mode run has issued its first search request
C25_Witness ==
    /\ use_utc_time
    /\ ProbeLog # <<>>
    /\ SearchLog # <<>>

\* C30 as stated: parse_timezone is sign-symmetric: the offset resolved for
\* a device reporting "-H:MM:SS" is the negation of the offset resolved for
\* a device reporting "+H:MM:SS", for all H, MM, SS.
C30_SignSymmetric ==
    pc = "search" =>
        \A c \in TzConfigs :
            (c.sign = "-" /\ c.name = <<>> /\ ~c.dst /\ TzTable[c] = device_tz) =>
                time_offset = 0 - parse_timezone(TzText([c EXCEPT !.sign = "+"]))

\* C27 as stated: against a device that holds finitely many recordings and
\* answers every page request with up to 50 of the recordings overlapping
\* the closed window, get_all_tracks issues finitely many page requests:
\* every full page moves the start of the window strictly forward, and the
\* loop has ended before the request budget of the run is used up.
C27_SearchTerminates ==
    /\ \A k \in 1..Len(SearchLog) :
          FullPage(SearchLog[k]) =>
              SearchLog[k].items[MAX_VIDEOS_NUMBER_IN_ONE_REQUEST].end > SearchLog[k].start
    /\ pc = "search" => NumRequests < MaxStoreRequests

\* C28 as stated: called twice in a row with the same interval object
\* against an unchanged device, get_all_tracks returns the same track list
\* the second time, whatever the number of pages of the first call.
C28_SecondCallSame ==
    (call = 2 /\ pc = "returned") => tracks = first_tracks

\* the last page of a call that returned: what follows its full pages
LastPage(trs) ==
    SubSeq(trs, (Len(trs) \div MAX_VIDEOS_NUMBER_IN_ONE_REQUEST)
                    * MAX_VIDEOS_NUMBER_IN_ONE_REQUEST + 1, Len(trs))

\* C28, amended: the second call starts where the first one left the
\* interval object: it returns the last page of the first call, which is
\* the whole list of the first call exactly when that call needed one page.
C28_SecondCallLastPage ==
    (call = 2 /\ pc = "returned") =>
        /\ tracks = LastPage(first_tracks)
        /\ Len(first_tracks) < MAX_VIDEOS_NUMBER_IN_ONE_REQUEST => tracks = first_tracks
        /\ Len(first_tracks) >= MAX_VIDEOS_NUMBER_IN_ONE_REQUEST => tracks # first_tracks

\* both calls returned and the first one needed several pages
C28_Witness ==
    /\ call = 2
    /\ pc = "returned"
    /\ Len(first_tracks) > MAX_VIDEOS_NUMBER_IN_ONE_REQUEST
    /\ tracks # <<>>

\* C26 as stated: after a download answered with the internal-error status
\* wait_until_camera_rebooted runs and returns (True when the device
\* accepted a connection, False when the wait budget elapsed), and in both
\* cases the download of the track is attempted again.
C26_WaitReturnsThenRetry ==
    \A j \in 1..Len(log) :
        (log[j].op = "download" /\ log[j].outcome = "http500") =>
            /\ \E w \in (j + 1)..Len(log) : log[w].op = "wait"
            /\ escaped = "none"
            /\ pc = "done" =>
                  \E m \in (j + 1)..Len(log) :
                      /\ log[m].op = "download"
                      /\ log[m].track = log[j].track
                      /\ \E w \in (j + 1)..(m - 1) : log[w].op = "wait"
====
